---- MODULE Spec2Model ----
(***************************************************************************)
(* Wireframe renderer of pipboy-pi (src/modules/cpp): the vector math of   *)
(* math.cpp, the mesh loader of obj_loader.cpp and the WireframeRenderer   *)
(* class of wireframe.cpp.                                                 *)
(*                                                                         *)
(* Number representation.                                                  *)
(*  - The animation angle rot_z and the static rotation rot are IEEE-754   *)
(*    single-precision values held EXACTLY, as integer multiples of        *)
(*    2^-27 rad (every float in [2^-4, 8) is such a multiple); FloatAdd is *)
(*    float addition with round-to-nearest-even.                           *)
(*  - Positions (Point3D) are fixed point, CU units per 1.0.               *)
(*  - cos/sin are a table at multiples of 5 degrees, TS units per 1.0;     *)
(*    every angle the model composes lies within 1e-5 rad of such a        *)
(*    multiple.  Rounded in fixed point, a projected coordinate can differ *)
(*    by one pixel from the float result where the exact value lies on a   *)
(*    half pixel.                                                          *)
(*  - Face indices are held as the int that convert_idx receives.          *)
(***************************************************************************)
EXTENDS Integers, Sequences, FiniteSets, TLC

VARIABLES
    running,     \* WireframeRenderer::running
    rot_z,       \* WireframeRenderer::rot_z, float, in units of 2^-27 rad
    camera,      \* WireframeRenderer::camera
    rot,         \* WireframeRenderer::rot, floats in units of 2^-27 rad
    original_v,  \* WireframeRenderer::original_v
    obj_f,       \* WireframeRenderer::obj.f
    op,          \* the operation that was called last
    path,        \* argument of the last load_model call ("" before any)
    lines,       \* the line list of the last render() call / the collector
    cands,       \* the (a, b) arguments of the add_line calls of that frame
    trace,       \* what that frame resolved and read: edges, behind, reads
    mark,        \* animation angle when the current run of ticks began
    streak,      \* number of consecutive running render() calls since mark
    math         \* arguments and result of the vector-math call

vars == <<running, rot_z, camera, rot, original_v, obj_f, op, path, lines,
          cands, trace, mark, streak, math>>

----------------------------------------------------------------------------
(* Fixed point and rounding *)

\* Resolution of a float coordinate: units per 1.0
CU == 1000

\* Resolution of a cos/sin value: units per 1.0
TS == 10000

Abs(n) == IF n < 0 THEN -n ELSE n

\* round(p / q) as C's round(): halves away from zero; q > 0
RoundDiv(p, q) ==
    IF p >= 0 THEN (2 * p + q) \div (2 * q)
    ELSE -((2 * (-p) + q) \div (2 * q))

\* round(p / (2 * h)), h > 0, without doubling p
RoundDivEven(p, h) ==
    IF p >= 0 THEN (p + h) \div (2 * h)
    ELSE -(((-p) + h) \div (2 * h))

SetMin(S) == CHOOSE m \in S : \A n \in S : m <= n

SetMax(S) == CHOOSE m \in S : \A n \in S : m >= n

Min2(a, b) == IF a <= b THEN a ELSE b

----------------------------------------------------------------------------
(* Single-precision angles, in units of 2^-27 rad *)

\* Spacing of the floats around s: 2^24 units is 2^-3 rad, where the
\* 24-bit significand stops resolving single units
Ulp(s) ==
    IF s < 16777216 THEN 1
    ELSE IF s < 33554432 THEN 2
    ELSE IF s < 67108864 THEN 4
    ELSE IF s < 134217728 THEN 8
    ELSE IF s < 268435456 THEN 16
    ELSE IF s < 536870912 THEN 32
    ELSE IF s < 1073741824 THEN 64
    ELSE 128

\* a + b in float arithmetic, round to nearest, ties to even; a, b >= 0
FloatAdd(a, b) ==
    LET s == a + b
        u == Ulp(s)
        q == s \div u
        r == s % u
    IN  IF 2 * r < u THEN q * u
        ELSE IF 2 * r > u THEN (q + 1) * u
        ELSE IF q % 2 = 0 THEN q * u
        ELSE (q + 1) * u

\* deg_to_rad(deg) = (float)(deg * (M_PI / 180.0f)), for the degrees used
deg_to_rad(deg) ==
    CASE deg = 0 -> 0
      [] deg = 5 -> 11712706
      [] deg = 45 -> 105414360
      [] deg = 90 -> 210828720

\* The per-tick increment in degrees
StepDeg == 5

\* The largest multiple of 2^-27 that is <= M_PI * 2.0f, the double
\* 6.283185307179586 = 843314856.53 units: r > M_PI * 2.0f iff r > TwoPiFloor
TwoPiFloor == 843314856

\* sin at multiples of 5 degrees, TS units per 1.0
SinTab ==
    <<0, 872, 1736, 2588, 3420, 4226, 5000, 5736, 6428, 7071, 7660, 8192,
      8660, 9063, 9397, 9659, 9848, 9962, 10000, 9962, 9848, 9659, 9397,
      9063, 8660, 8192, 7660, 7071, 6428, 5736, 5000, 4226, 3420, 2588,
      1736, 872, 0, -872, -1736, -2588, -3420, -4226, -5000, -5736, -6428,
      -7071, -7660, -8192, -8660, -9063, -9397, -9659, -9848, -9962,
      -10000, -9962, -9848, -9659, -9397, -9063, -8660, -8192, -7660,
      -7071, -6428, -5736, -5000, -4226, -3420, -2588, -1736, -872>>

\* The multiple of 5 degrees nearest to the angle a, as an index 0..71
TrigIdx(a) ==
    LET step == deg_to_rad(StepDeg)
    IN  ((a + step \div 2) \div step) % Len(SinTab)

Sin(a) == SinTab[TrigIdx(a) + 1]

Cos(a) == SinTab[((TrigIdx(a) + Len(SinTab) \div 4) % Len(SinTab)) + 1]

----------------------------------------------------------------------------
(* math.cpp *)

P3(x, y, z) == [x |-> x, y |-> y, z |-> z]

P2(x, y) == [x |-> x, y |-> y]

rot_v(r, v) ==
    LET cx == Cos(r.x)
        sx == Sin(r.x)
        cy == Cos(r.y)
        sy == Sin(r.y)
        cz == Cos(r.z)
        sz == Sin(r.z)
        x1 == RoundDiv(v.x * cy + v.z * sy, TS)
        z1 == RoundDiv((-v.x) * sy + v.z * cy, TS)
        y2 == RoundDiv(v.y * cx - z1 * sx, TS)
        z2 == RoundDiv(v.y * sx + z1 * cx, TS)
        x3 == RoundDiv(x1 * cz - y2 * sz, TS)
        y3 == RoundDiv(x1 * sz + y2 * cz, TS)
    IN  P3(x3, y3, z2)

\* Faulty variant of sub_v: the operands exchanged
sub_v_reversed(v1, v2) == P3(v2.x - v1.x, v2.y - v1.y, v2.z - v1.z)

sub_v(v1, v2) == P3(v1.x - v2.x, v1.y - v2.y, v1.z - v2.z)

cross_v(v1, v2) ==
    P3(v1.y * v2.z - v2.z * v1.y,
       v1.z * v2.x - v1.x * v2.z,
       v1.x * v2.y - v1.y * v2.x)

dist2(x1, y1, x2, y2) ==
    LET dx == x1 - x2
        dy == y1 - y2
    IN  dx * dx + dy * dy

\* Faulty variant of lines_equal: the swapped pairing left out
lines_equal_direct(l1, l2, eps2) ==
    /\ dist2(l1.x1, l1.y1, l2.x1, l2.y1) <= eps2
    /\ dist2(l1.x2, l1.y2, l2.x2, l2.y2) <= eps2

lines_equal(l1, l2, eps2) ==
    \/ /\ dist2(l1.x1, l1.y1, l2.x1, l2.y1) <= eps2
       /\ dist2(l1.x2, l1.y2, l2.x2, l2.y2) <= eps2
    \/ /\ dist2(l1.x1, l1.y1, l2.x2, l2.y2) <= eps2
       /\ dist2(l1.x2, l1.y2, l2.x1, l2.y1) <= eps2

----------------------------------------------------------------------------
(* obj_loader.cpp *)

\* The mesh files a host may name: "v" lines as whole-number triples, "f"
\* lines as the leading index of each token, and whether the file opens
CubeFile ==
    [open |-> TRUE,
     v |-> <<<<0, 0, 0>>, <<1, 0, 0>>, <<1, 1, 0>>, <<0, 1, 0>>,
             <<0, 0, 1>>, <<1, 0, 1>>, <<1, 1, 1>>, <<0, 1, 1>>>>,
     f |-> <<<<1, 2, 3>>, <<1, 3, 4>>, <<5, 6, 7>>, <<5, 7, 8>>,
             <<1, 2, 6>>, <<1, 6, 5>>, <<2, 3, 7>>, <<2, 7, 6>>,
             <<3, 4, 8>>, <<3, 8, 7>>, <<4, 1, 5>>, <<4, 5, 8>>>>]

\* A tetrahedron whose face lines hold the indices 0, n + 1 and n + 2
PatchFile ==
    [open |-> TRUE,
     v |-> <<<<0, 0, 0>>, <<2, 0, 0>>, <<0, 2, 0>>, <<0, 0, 2>>>>,
     f |-> <<<<1, 2, 3>>, <<0, 1, 2>>, <<5, 1, 2>>, <<6, 1, 2>>,
             <<2, 3, 4>>>>]

\* Two coincident vertices: a bounding box of zero extent
PointFile ==
    [open |-> TRUE,
     v |-> <<<<1, 1, 1>>, <<1, 1, 1>>>>,
     f |-> <<<<1, 2, 1>>>>]

MissingFile == [open |-> FALSE, v |-> <<>>, f |-> <<>>]

Paths == {"cube.obj", "patch.obj", "point.obj", "missing.obj"}

FileAt(p) ==
    CASE p = "cube.obj" -> CubeFile
      [] p = "patch.obj" -> PatchFile
      [] p = "point.obj" -> PointFile
      [] OTHER -> MissingFile

\* "v x z y" is stored as {x, -y, z}; "f a b c" as {a - 1, b - 1, c - 1}
\* in unsigned arithmetic, which convert_idx later reads back as the int
\* a - 1 (token 0 becomes -1)
parse_file(p) ==
    LET file == FileAt(p)
    IN  IF ~file.open THEN [v |-> <<>>, f |-> <<>>]
        ELSE [v |-> [i \in 1..Len(file.v) |->
                        P3(file.v[i][1] * CU, -(file.v[i][3] * CU),
                           file.v[i][2] * CU)],
              f |-> [i \in 1..Len(file.f) |->
                        [v1 |-> file.f[i][1] - 1, v2 |-> file.f[i][2] - 1,
                         v3 |-> file.f[i][3] - 1]]]

RECURSIVE SumOver(_, _)
SumOver(v, k) == IF k = 0 THEN P3(0, 0, 0)
                 ELSE LET s == SumOver(v, k - 1)
                      IN  P3(s.x + v[k].x, s.y + v[k].y, s.z + v[k].z)

\* Obj::Obj: parse, then recentre the vertices about their centroid
Obj(p) ==
    LET parsed == parse_file(p)
        n == Len(parsed.v)
        sum == SumOver(parsed.v, n)
        center == IF n = 0 THEN P3(0, 0, 0)
                  ELSE P3(RoundDiv(sum.x, n), RoundDiv(sum.y, n),
                          RoundDiv(sum.z, n))
    IN  [v |-> [i \in 1..n |-> sub_v(parsed.v[i], center)],
         f |-> parsed.f]

\* Edge of the cube the mesh is scaled to fit
ScaleBox == 20

\* WireframeRenderer::scale_obj_to_screen; max_dim < 1e-6 is max_dim = 0
\* at the resolution 1 / CU
scale_obj_to_screen(v) ==
    IF Len(v) = 0 THEN v
    ELSE LET xs == {v[i].x : i \in DOMAIN v}
             ys == {v[i].y : i \in DOMAIN v}
             zs == {v[i].z : i \in DOMAIN v}
             dim == P3(SetMax(xs) - SetMin(xs), SetMax(ys) - SetMin(ys),
                       SetMax(zs) - SetMin(zs))
             max_dim == SetMax({dim.x, dim.y, dim.z})
         IN  IF max_dim <= 0 THEN v
             ELSE [i \in DOMAIN v |->
                      P3(RoundDiv(v[i].x * ScaleBox * CU, max_dim),
                         RoundDiv(v[i].y * ScaleBox * CU, max_dim),
                         RoundDiv(v[i].z * ScaleBox * CU, max_dim))]

\* scale_obj_to_screen(); original_v = obj.v
Scaled(o) == [obj_f |-> o.f, original_v |-> scale_obj_to_screen(o.v)]

\* WireframeRenderer::load_model: the new obj.f and original_v
load_model(p) == Scaled(Obj(p))

----------------------------------------------------------------------------
(* wireframe.cpp: WireframeRenderer *)

\* Constructor arguments: viewport width and height
width == 100

height == 100

\* Constructor argument focal, at its default
focal_l == 50

\* size_factor = min(width, height) / 100.0f, as a fraction
size_factor == [num |-> Min2(width, height), den |-> 100]

\* EPS_Z = 1e-4f at the resolution 1 / CU: z <= 1e-4 iff z <= 0 units
EPS_Z == 0

\* The invalid sentinel of conv_screen_space
Sentinel == P2(-1, -1)

\* round(((vertex.x * focal_l / vertex.z) * factor) + (widths * 0.5f)),
\* over the common denominator 2 * factor.den * vertex.z
conv_screen_space(vertex, heights, widths, factor, focal) ==
    IF vertex.z <= EPS_Z THEN Sentinel
    ELSE LET h == factor.den * vertex.z
         IN  P2(RoundDivEven(2 * vertex.x * focal * factor.num + widths * h, h),
                RoundDivEven(2 * vertex.y * focal * factor.num + heights * h, h))

\* Default eps of add_line
EPS == 1

L2(a, b) == [x1 |-> a.x, y1 |-> a.y, x2 |-> b.x, y2 |-> b.y]

\* Faulty variant of Oriented: the swap left out
OrientedAsGiven(a, b) == L2(a, b)

\* The orientation add_line stores: swapped when a is the larger endpoint
Oriented(a, b) ==
    IF a.x > b.x \/ (a.x = b.x /\ a.y > b.y) THEN L2(b, a) ELSE L2(a, b)

add_line(out, a, b) ==
    LET new_line == L2(a, b)
        eps2 == EPS * EPS
    IN  IF \E i \in DOMAIN out : lines_equal(out[i], new_line, eps2)
        THEN out
        ELSE Append(out, Oriented(a, b))

\* (size_t)idx < n for an int idx: a negative idx converts to a value
\* above every vector size
SizeTLess(idx, n) == idx >= 0 /\ idx < n

\* Faulty variant of convert_idx: the bounds compared with <=
convert_idx_inclusive(idx, n) ==
    IF idx < 0 THEN -1
    ELSE IF idx <= n THEN idx
    ELSE IF idx - 1 <= n THEN idx - 1
    ELSE -1

\* The lambda convert_idx of render(), n being new_v.size()
convert_idx(idx, n) ==
    IF idx < 0 THEN -1
    ELSE IF SizeTLess(idx, n) THEN idx
    ELSE IF SizeTLess(idx - 1, n) THEN idx - 1
    ELSE -1

\* new_v[i] for a 0-based i. A read outside the vector is undefined
\* behaviour; convert_idx keeps every read of render() inside it.
ReadV(new_v, i) == IF i + 1 \in DOMAIN new_v THEN new_v[i + 1] ELSE Sentinel

\* The face loop of render(): the index pairs handed to add_line, in order
RECURSIVE FaceEdges(_, _, _)
FaceEdges(fs, k, n) ==
    IF k > Len(fs) THEN <<>>
    ELSE LET a == convert_idx(fs[k].v1, n)
             b == convert_idx(fs[k].v2, n)
             c == convert_idx(fs[k].v3, n)
         IN  IF a < 0 \/ b < 0 \/ c < 0 THEN FaceEdges(fs, k + 1, n)
             ELSE <<[ia |-> a, ib |-> b], [ia |-> b, ib |-> c],
                    [ia |-> c, ib |-> a]>> \o FaceEdges(fs, k + 1, n)

\* The add_line calls of one frame applied in order to an empty list
RECURSIVE Collect(_, _)
Collect(cs, k) ==
    IF k = 0 THEN <<>> ELSE add_line(Collect(cs, k - 1), cs[k].a, cs[k].b)

\* Faulty variant of RotateWorkingCopy: rot_v applied to original_v itself
RotateInPlace(rot_rad, ov) ==
    LET rotated == [i \in DOMAIN ov |-> rot_v(rot_rad, ov[i])]
    IN  [baseline |-> rotated, working |-> rotated]

\* obj_new.v = original_v, then rot_v on every vertex of the copy
RotateWorkingCopy(rot_rad, ov) ==
    [baseline |-> ov, working |-> [i \in DOMAIN ov |-> rot_v(rot_rad, ov[i])]]

\* Faulty variant of AdvanceAngle: the wrap left out
AdvanceAngleNoWrap(r) == FloatAdd(r, deg_to_rad(StepDeg))

\* rot_z += deg_to_rad(5.0f); if (rot_z > M_PI * 2.0f) rot_z = 0.0f
AdvanceAngle(r) ==
    LET s == FloatAdd(r, deg_to_rad(StepDeg))
    IN  IF s > TwoPiFloor THEN 0 ELSE s

NoFrame == [edges |-> <<>>, behind |-> {}, reads |-> {}]

\* camera_space_v: sub_v(v, camera) for every vertex of the working copy
CameraSpace(working, cam) ==
    [i \in DOMAIN working |-> sub_v(working[i], cam)]

\* new_v: conv_screen_space of every camera-space vertex
Project(camera_space_v) ==
    [i \in DOMAIN camera_space_v |->
        conv_screen_space(camera_space_v[i], height, width, size_factor,
                          focal_l)]

\* The 0-based positions of the vertices that conv_screen_space rejects
Behind(camera_space_v) ==
    {i \in 0..(Len(camera_space_v) - 1) : camera_space_v[i + 1].z <= EPS_Z}

\* The arguments of the add_line calls: new_v at the resolved indices
Candidates(new_v, edges) ==
    [k \in DOMAIN edges |->
        [a |-> ReadV(new_v, edges[k].ia), b |-> ReadV(new_v, edges[k].ib)]]

\* What render() leaves and returns once the face loop has run
FrameRecord(baseline, behind, edges, cs) ==
    [original_v |-> baseline,
     lines |-> Collect(cs, Len(cs)),
     cands |-> cs,
     trace |-> [edges |-> edges, behind |-> behind,
                reads |-> UNION {{edges[k].ia, edges[k].ib} :
                                    k \in DOMAIN edges}]]

\* The face loop of render() over the projected vertices new_v
FrameOfProjection(baseline, behind, new_v, fs) ==
    FrameRecord(baseline, behind, FaceEdges(fs, 1, Len(new_v)),
                Candidates(new_v, FaceEdges(fs, 1, Len(new_v))))

\* render() from the camera transform on
FrameOfCopy(copy, cam, fs) ==
    FrameOfProjection(copy.baseline, Behind(CameraSpace(copy.working, cam)),
                      Project(CameraSpace(copy.working, cam)), fs)

\* render() from the composition of the rotation on, the animation angle
\* already advanced: original_v afterwards, the returned lines and what
\* the frame did
Frame(angle, cam, rt, ov, fs) ==
    FrameOfCopy(RotateWorkingCopy(P3(rt.x, FloatAdd(rt.y, angle), rt.z), ov),
                cam, fs)

\* The frame with the angle it was drawn at
WithAngle(angle, fr) ==
    [rot_z |-> angle, original_v |-> fr.original_v, lines |-> fr.lines,
     cands |-> fr.cands, trace |-> fr.trace]

\* render() on a running renderer: the new rot_z with the frame it draws
RenderRunning(rz, cam, rt, ov, fs) ==
    WithAngle(AdvanceAngle(rz), Frame(AdvanceAngle(rz), cam, rt, ov, fs))

\* render() on a stopped renderer: return {}
RenderStopped(rz, ov) ==
    [rot_z |-> rz, original_v |-> ov, lines |-> <<>>, cands |-> <<>>,
     trace |-> NoFrame]

\* Faulty variant of render: the running check left out
render_unguarded(run, rz, cam, rt, ov, fs) == RenderRunning(rz, cam, rt, ov, fs)

render(run, rz, cam, rt, ov, fs) ==
    IF ~run THEN RenderStopped(rz, ov) ELSE RenderRunning(rz, cam, rt, ov, fs)

----------------------------------------------------------------------------
(* The renderer's control surface *)

\* Camera positions a host sets (the first is the constructor's)
Cameras ==
    {P3(0, 0, -10 * CU), P3(0, 0, -30 * CU), P3(0, 0, 30 * CU),
     P3(5 * CU, -5 * CU, -30 * CU)}

\* Static rotations a host sets, in degrees
StaticRotations == {<<0, 0, 0>>, <<90, 0, 0>>, <<0, 45, 90>>}

NoCall == [a |-> P3(0, 0, 0), b |-> P3(0, 0, 0), out |-> <<>>]

\* The state after WireframeRenderer(width, height, focal)
Init ==
    /\ running = FALSE
    /\ rot_z = 0
    /\ camera = P3(0, 0, -10 * CU)
    /\ rot = P3(0, 0, 0)
    /\ original_v = <<>>
    /\ obj_f = <<>>
    /\ op = "init"
    /\ path = ""
    /\ lines = <<>>
    /\ cands = <<>>
    /\ trace = NoFrame
    /\ mark = 0
    /\ streak = 0
    /\ math = NoCall

\* A call that returns no line list
ReturnsNothing == lines' = <<>> /\ cands' = <<>> /\ trace' = NoFrame

\* obj = Obj(path), scaled; original_v = obj.v
StoreMesh(mesh) == obj_f' = mesh.obj_f /\ original_v' = mesh.original_v

LoadModel(p) ==
    /\ op' = "load_model"
    /\ path' = p
    /\ StoreMesh(load_model(p))
    /\ ReturnsNothing
    /\ UNCHANGED <<running, rot_z, camera, rot, mark, streak, math>>

SetCamera(c) ==
    /\ op' = "set_camera"
    /\ camera' = c
    /\ ReturnsNothing
    /\ UNCHANGED <<running, rot_z, rot, original_v, obj_f, path, mark,
                   streak, math>>

SetRotation(d) ==
    /\ op' = "set_rotation"
    /\ rot' = P3(deg_to_rad(d[1]), deg_to_rad(d[2]), deg_to_rad(d[3]))
    /\ ReturnsNothing
    /\ UNCHANGED <<running, rot_z, camera, original_v, obj_f, path, mark,
                   streak, math>>

StartCall ==
    /\ op' = "start"
    /\ running' = TRUE
    /\ ReturnsNothing
    /\ UNCHANGED <<rot_z, camera, rot, original_v, obj_f, path, math>>

StopCall ==
    /\ op' = "stop"
    /\ running' = FALSE
    /\ ReturnsNothing
    /\ UNCHANGED <<rot_z, camera, rot, original_v, obj_f, path, math>>

\* The state render() leaves and the list it returns
Rendered(r) ==
    /\ rot_z' = r.rot_z
    /\ original_v' = r.original_v
    /\ lines' = r.lines
    /\ cands' = r.cands
    /\ trace' = r.trace

RenderCall ==
    /\ op' = "render"
    /\ Rendered(render(running, rot_z, camera, rot, original_v, obj_f))
    /\ UNCHANGED <<running, camera, rot, obj_f, path, math>>

Start == StartCall /\ UNCHANGED <<mark, streak>>

Stop == StopCall /\ UNCHANGED <<mark, streak>>

Render == RenderCall /\ UNCHANGED <<mark, streak>>

Next ==
    \/ \E p \in Paths : LoadModel(p)
    \/ \E c \in Cameras : SetCamera(c)
    \/ \E d \in StaticRotations : SetRotation(d)
    \/ Start
    \/ Stop
    \/ Render

Spec == Init /\ [][Next]_vars

----------------------------------------------------------------------------
(* A host that only starts, stops and ticks; mark and streak count the    *)
(* consecutive render() calls made while running                          *)

\* Ticks of a full turn at StepDeg degrees per tick
PeriodTicks == 360 \div StepDeg

TickStart == StartCall /\ mark' = rot_z /\ streak' = 0

TickStop == StopCall /\ mark' = rot_z /\ streak' = 0

Tick ==
    /\ RenderCall
    /\ IF ~running THEN mark' = rot_z /\ streak' = 0
       ELSE IF streak = PeriodTicks THEN mark' = rot_z /\ streak' = 1
       ELSE mark' = mark /\ streak' = streak + 1

NextTicks == TickStart \/ TickStop \/ Tick

SpecTicks == Init /\ [][NextTicks]_vars

----------------------------------------------------------------------------
(* The line collector of one frame, driven directly: add_line on any      *)
(* points, and the start of a new frame                                   *)

\* Most add_line calls followed within one frame
MaxCalls == 3

\* Screen points handed to add_line: the sentinel, two points one pixel
\* apart, and two further points
Points == {Sentinel, P2(0, 0), P2(1, 0), P2(0, 2), P2(3, 1)}

AddLineCall(a, b) ==
    /\ Len(cands) < MaxCalls
    /\ op' = "add_line"
    /\ lines' = add_line(lines, a, b)
    /\ cands' = Append(cands, [a |-> a, b |-> b])
    /\ UNCHANGED <<running, rot_z, camera, rot, original_v, obj_f, path,
                   trace, mark, streak, math>>

\* std::vector<Line2D> lines; at the top of render()
NewFrame ==
    /\ op' = "new_frame"
    /\ lines' = <<>>
    /\ cands' = <<>>
    /\ UNCHANGED <<running, rot_z, camera, rot, original_v, obj_f, path,
                   trace, mark, streak, math>>

NextLines == (\E a \in Points, b \in Points : AddLineCall(a, b)) \/ NewFrame

SpecLines == Init /\ [][NextLines]_vars

----------------------------------------------------------------------------
(* The vector math, called directly *)

\* Largest magnitude of a vector component
MaxCoord == 1

Vectors == {P3(x, y, z) : x \in -MaxCoord..MaxCoord, y \in -MaxCoord..MaxCoord,
                          z \in -MaxCoord..MaxCoord}

InitMath ==
    /\ Init!1 /\ Init!2 /\ Init!3 /\ Init!4 /\ Init!5 /\ Init!6 /\ Init!7
    /\ Init!8 /\ Init!9 /\ Init!10 /\ Init!11 /\ Init!12 /\ Init!13
    /\ \E a \in Vectors, b \in Vectors : math = [a |-> a, b |-> b, out |-> <<>>]

CrossCall ==
    /\ math.out = <<>>
    /\ op' = "cross_v"
    /\ math' = [math EXCEPT !.out = cross_v(math.a, math.b)]
    /\ UNCHANGED <<running, rot_z, camera, rot, original_v, obj_f, path,
                   lines, cands, trace, mark, streak>>

NextMath == CrossCall

SpecMath == InitMath /\ [][NextMath]_vars

----------------------------------------------------------------------------
(* Properties *)

LexLeq(p, q) == p.x < q.x \/ (p.x = q.x /\ p.y <= q.y)

\* The candidate (a, b) with its lexicographically smaller endpoint first
Canonical(c) == IF LexLeq(c.a, c.b) THEN L2(c.a, c.b) ELSE L2(c.b, c.a)

\* The first add_line call of the frame that asked for the line l
FirstCand(l) == SetMin({k \in DOMAIN cands : Canonical(cands[k]) = l})

Ticked == op = "render" /\ running

InViewport(l) ==
    /\ 0 <= l.x1 /\ l.x1 < width /\ 0 <= l.y1 /\ l.y1 < height
    /\ 0 <= l.x2 /\ l.x2 < width /\ 0 <= l.y2 /\ l.y2 < height

\* C1: no line returned by render() has an endpoint that came from a vertex
\* whose camera-space z was <= EPS_Z (a vertex projected to the sentinel).
C1_SentinelEdgesRejected ==
    Ticked =>
        \A i \in DOMAIN lines :
            LET e == trace.edges[FirstCand(lines[i])]
            IN  e.ia \notin trace.behind /\ e.ib \notin trace.behind

\* C2: a render() call on a stopped renderer returns the empty list and
\* leaves camera, static rotation, animation angle, baseline vertices and
\* faces as they were; start() and stop() change none of them either, so
\* the values after a later start() are those held at stop().
C2_StoppedRenderInert ==
    [][/\ (op' = "render" /\ ~running) =>
              (lines' = <<>> /\ UNCHANGED <<running, rot_z, camera, rot,
                                            original_v, obj_f>>)
       /\ (op' \in {"start", "stop"}) =>
              UNCHANGED <<rot_z, camera, rot, original_v, obj_f>>]_vars

\* A render() call made after stop() on a renderer that has a mesh loaded
\* and has ticked: it returned nothing and the angle it holds is kept
C2_Witness ==
    /\ op = "render" /\ ~running /\ lines = <<>>
    /\ rot_z > 0 /\ Len(original_v) > 0 /\ rot # P3(0, 0, 0)

\* C3: in every reachable state the animation angle lies in [0, 2 pi):
\* it is never negative and never reaches M_PI * 2.
C3_AngleInRange == 0 <= rot_z /\ rot_z <= TwoPiFloor

\* The tick that wrapped the angle back to 0
C3_Witness == Ticked /\ rot_z = 0

\* Distance of two angles on the circle of circumference 2 pi
CircDist(a, b) == Min2(Abs(a - b), TwoPiFloor - Abs(a - b))

\* C4: after exactly 72 consecutive render() calls on a running renderer
\* the animation angle is back at the value it had before the first of
\* them (here: to within half a tick's increment, modulo 2 pi).
C4_PeriodIs72Ticks ==
    streak = PeriodTicks =>
        CircDist(rot_z, mark) <= deg_to_rad(StepDeg) \div 2

\* Both endpoint pairs within squared distance EPS^2, directly or swapped
Near(x1, y1, x2, y2) ==
    (x1 - x2) * (x1 - x2) + (y1 - y2) * (y1 - y2) <= EPS * EPS

NearDuplicate(l, m) ==
    \/ Near(l.x1, l.y1, m.x1, m.y1) /\ Near(l.x2, l.y2, m.x2, m.y2)
    \/ Near(l.x1, l.y1, m.x2, m.y2) /\ Near(l.x2, l.y2, m.x1, m.y1)

\* C5: after any sequence of add_line calls on one frame's collector no
\* two stored lines are near-duplicates of each other, and add_line(a, b)
\* followed by add_line(b, a) leaves exactly one stored line.
C5_NoNearDuplicates ==
    /\ \A i \in DOMAIN lines : \A j \in DOMAIN lines :
           i < j => ~NearDuplicate(lines[i], lines[j])
    /\ (Len(cands) = 2 /\ cands[2].a = cands[1].b /\ cands[2].b = cands[1].a)
           => Len(lines) = 1

\* add_line(a, b) then add_line(b, a) for two distinct points, and a third
\* call whose line lies one pixel from the stored one
C5_Witness ==
    /\ op = "add_line" /\ Len(cands) = 3 /\ Len(lines) = 1
    /\ cands[1].a # cands[1].b
    /\ cands[2].a = cands[1].b /\ cands[2].b = cands[1].a
    /\ Canonical(cands[3]) # lines[1]

\* C6: cross_v(a, b) is the right-hand-rule cross product in all three
\* components.
C6_CrossIsRightHanded ==
    math.out # <<>> =>
        math.out = P3(math.a.y * math.b.z - math.a.z * math.b.y,
                      math.a.z * math.b.x - math.a.x * math.b.z,
                      math.a.x * math.b.y - math.a.y * math.b.x)

CubeFrame(cam) ==
    /\ Ticked /\ path = "cube.obj"
    /\ rot = P3(0, 0, 0) /\ camera = cam

\* C7 as stated: the unit cube, static rotation (0,0,0), the camera far
\* along +z: render() returns exactly 12 lines, all inside the viewport.
C7_CubeTwelveLines ==
    CubeFrame(P3(0, 0, 30 * CU)) =>
        Len(lines) = 12 /\ \A i \in DOMAIN lines : InViewport(lines[i])

\* C7 amended: the unit cube, static rotation (0,0,0), a 100 x 100
\* viewport, focal length 50 and the camera at (0, 0, -30): at every
\* animation angle render() returns exactly 18 lines, the 12 cube edges
\* and the 6 face diagonals once each, all inside the viewport.
C7_CubeEighteenLines ==
    CubeFrame(P3(0, 0, -30 * CU)) =>
        /\ Len(lines) = 18
        /\ \A i \in DOMAIN lines : InViewport(lines[i])
        /\ Cardinality({{trace.edges[FirstCand(lines[i])].ia,
                         trace.edges[FirstCand(lines[i])].ib} :
                            i \in DOMAIN lines}) = 18

C7_Witness == CubeFrame(P3(0, 0, -30 * CU)) /\ Len(lines) = 18 /\ rot_z = 0

\* The resolution of a face index i against n projected vertices
Resolved(i, n) ==
    IF 0 <= i /\ i < n THEN i
    ELSE IF 0 <= i - 1 /\ i - 1 < n THEN i - 1
    ELSE -1

RECURSIVE ExpectedEdges(_, _, _)
ExpectedEdges(fs, k, n) ==
    IF k = 0 THEN <<>>
    ELSE LET a == Resolved(fs[k].v1, n)
             b == Resolved(fs[k].v2, n)
             c == Resolved(fs[k].v3, n)
         IN  ExpectedEdges(fs, k - 1, n) \o
                 (IF -1 \in {a, b, c} THEN <<>>
                  ELSE <<[ia |-> a, ib |-> b], [ia |-> b, ib |-> c],
                         [ia |-> c, ib |-> a]>>)

\* C8: in render() each face index i resolves to i if 0 <= i < n, else to
\* i - 1 if 0 <= i - 1 < n, else not at all; a face with an unresolved
\* index contributes no line, the other faces are processed in order, and
\* the projected-vertex array is read only at positions in [0, n).
C8_FaceIndexResolution ==
    Ticked =>
        /\ trace.edges = ExpectedEdges(obj_f, Len(obj_f), Len(original_v))
        /\ trace.reads \subseteq 0..(Len(original_v) - 1)

\* A frame of the mesh whose faces hold an index 0, an index n + 1 (taken
\* as 1-based) and an index n + 2, with a valid face after the skipped ones
C8_Witness ==
    /\ Ticked /\ path = "patch.obj"
    /\ Len(trace.edges) = 9 /\ Len(obj_f) = 5
    /\ trace.edges[4] = [ia |-> 3, ib |-> 0]
    /\ trace.edges[7] = [ia |-> 1, ib |-> 2]

\* C9: every line returned by render() has (x1, y1) lexicographically less
\* than or equal to (x2, y2), and the lines are listed in the order in
\* which add_line first accepted them.
C9_CanonicalInOrder ==
    Ticked =>
        /\ \A i \in DOMAIN lines :
               LexLeq(P2(lines[i].x1, lines[i].y1), P2(lines[i].x2, lines[i].y2))
        /\ \A i \in DOMAIN lines : \A j \in DOMAIN lines :
               i < j => FirstCand(lines[i]) < FirstCand(lines[j])

\* A frame that stored a line whose add_line call named the larger
\* endpoint first
C9_Witness ==
    /\ Ticked /\ Len(lines) > 1
    /\ \E i \in DOMAIN lines :
           LET c == cands[FirstCand(lines[i])]
           IN  ~LexLeq(c.a, c.b)

\* C10: once loaded, the baseline vertex list and the face list are left
\* unchanged by render(), set_camera, set_rotation, start and stop: they
\* stay what load_model stored, and the lines a render() call returns are
\* those of that baseline at the call's animation angle, camera and static
\* rotation, whatever was rendered before.
C10_BaselineImmutable ==
    /\ [][op' # "load_model" => UNCHANGED <<original_v, obj_f>>]_vars
    /\ [](/\ original_v = load_model(path).original_v
          /\ obj_f = load_model(path).obj_f
          /\ Ticked => lines = Frame(rot_z, camera, rot,
                                     load_model(path).original_v,
                                     load_model(path).obj_f).lines)

\* A second or later frame of a loaded mesh
C10_Witness ==
    /\ Ticked /\ Len(original_v) > 0 /\ Len(lines) > 1
    /\ rot_z > deg_to_rad(StepDeg)

====
